---- MODULE Spec2Model ----
(***************************************************************************)
(* Model of docstring-ai's incremental-state and batching pipeline:        *)
(* process_files_and_create_prs and the functions it drives                *)
(* (src/docstring_ai/lib/process.py), run against a small repository.      *)
(***************************************************************************)
EXTENDS Integers, Sequences, FiniteSets, TLC

(* ------------------------------ bounds --------------------------------- *)
\* pr_depth is drawn from 0..MaxDepth
MaxDepth == 2
\* number of failures (an unreadable file, a failing external call, a failing
\* write) the environment injects in one behaviour
MaxFaults == 1

(* ------------------------- paths and the tree -------------------------- *)
\* A path is a sequence of characters, so that str.startswith is a prefix
\* test on characters, as in the code.
RepoPath == <<"r">>
FileA == <<"r", "/", "a">>
FileB == <<"r", "/", "p", "/", "b">>
FileC == <<"r", "/", "p", "/", "s", "/", "c">>
Files == {FileA, FileB, FileC}

\* The directories os.walk visits, top-down.
DirWalk == << <<"r">>, <<"r", "/", "p">>, <<"r", "/", "p", "/", "s">> >>

StartsWith(s, prefix) ==
    /\ Len(prefix) <= Len(s)
    /\ SubSeq(s, 1, Len(prefix)) = prefix

\* str(Path(p)): a trailing separator is dropped
PathStr(p) ==
    IF Len(p) > 1 /\ p[Len(p)] = "/" THEN SubSeq(p, 1, Len(p) - 1) ELSE p

\* os.path.relpath(p, repo_path) for p at or under repo_path
RelPath(p) ==
    IF p = RepoPath THEN <<".">> ELSE SubSeq(p, Len(RepoPath) + 2, Len(p))

RECURSIVE CountSep(_)
CountSep(p) ==
    IF p = <<>> THEN 0
    ELSE (IF Head(p) = "/" THEN 1 ELSE 0) + CountSep(Tail(p))

\* depth of a directory: the number of path segments below the root
DirDepth(d) == IF RelPath(d) = <<".">> THEN 0 ELSE CountSep(RelPath(d)) + 1

RelFiles == {RelPath(f) : f \in Files}

(* ------------------------------ helpers -------------------------------- *)
RECURSIVE Reverse(_)
Reverse(s) == IF s = <<>> THEN <<>> ELSE Append(Reverse(Tail(s)), Head(s))

RECURSIVE SeqToSet(_)
SeqToSet(s) == IF s = <<>> THEN {} ELSE {Head(s)} \cup SeqToSet(Tail(s))

RECURSIVE Flatten(_)
Flatten(ss) == IF ss = <<>> THEN <<>> ELSE Head(ss) \o Flatten(Tail(ss))

NoDup(s) == \A x, y \in 1..Len(s) : s[x] = s[y] => x = y

Perms(S) == {s \in [1..Cardinality(S) -> S] : \A x, y \in 1..Cardinality(S) :
                                                   s[x] = s[y] => x = y}

(* ------------------------- contents and hashes ------------------------- *)
\* A file content: whether it starts with the docstring-ai header line,
\* whether it holds a broken code fence "` ``", and which text it is.
\* body 0 is the empty string.
EmptyContent == [hdr |-> FALSE, fence |-> FALSE, body |-> 0]
OrigContent == [hdr |-> FALSE, fence |-> FALSE, body |-> 1]
EditedContent == [hdr |-> FALSE, fence |-> FALSE, body |-> 3]
\* what the Annotator may hand to the apply function
Proposals == {EmptyContent} \cup [hdr : BOOLEAN, fence : BOOLEAN, body : {2}]

None == <<"None">>

\* compute_sha256: a digest of the content only, collision free on the
\* contents of the model
compute_sha256(c) ==
    <<"sha256", 4 * c.body + (IF c.hdr THEN 2 ELSE 0) + (IF c.fence THEN 1 ELSE 0)>>

\* new_file_content.replace('` ``', '```')
ReplaceFence(c) == [c EXCEPT !.fence = FALSE]

\* ensure_docstring_header: the header is added if not present
ensure_docstring_header(c) == [c EXCEPT !.hdr = TRUE]

\* len(original_code): the number of characters of a content.  The header
\* line adds to it.
CharLen(c) == (CASE c.body = 0 -> 0 [] c.body = 1 -> 3 [] c.body = 2 -> 2
                 [] OTHER -> 1) + (IF c.hdr THEN 1 ELSE 0)

\* The number of tokens the model's encoding makes of a content: fewer than
\* its characters for plain text, more for text outside the encoding's
\* vocabulary.
TokenLen(c) == (CASE c.body = 0 -> 0 [] c.body = 1 -> 2 [] c.body = 2 -> 1
                  [] OTHER -> 2) + (IF c.hdr THEN 1 ELSE 0)

\* The maximum number of tokens of a request to the model
MAX_TOKENS == 4

\* The cache file holds one (relative path, hash) pair per key of the
\* dictionary; a missing file is the file without pairs.
\* save_cache: the file is rewritten wholesale from the dictionary
save_cache(cch) == {<<p, cch[p]>> : p \in {q \in DOMAIN cch : cch[q] # None}}

\* load_cache: the dictionary of the pairs; cache.get(p) is None for a path
\* without a pair
load_cache(file) ==
    [p \in RelFiles |->
        IF \E e \in file : e[1] = p
        THEN (CHOOSE e \in file : e[1] = p)[2] ELSE None]

(* ------------------------------- state --------------------------------- *)
VARIABLES
    pc,                     \* where process_files_and_create_prs stands
    run,                    \* 1 in a run, 2 in the run that follows it
    args,                   \* the arguments of process_files_and_create_prs
    disk,                   \* content of every Python file of the repository
    backups,                \* the backup copies of a file: <<>> or <<content>>
    cacheFile,              \* the persisted cache: (relative path, hash) pairs
    contextFile,            \* the persisted context summary
    cache,                  \* the cache dictionary in memory
    cacheLoaded,            \* the cache as load_cache returned it this run
    context_summary,        \* the context summary list in memory
    contextLoaded,          \* the context summary as loaded this run
    python_files_sorted,    \* the files as sort_files_by_size ordered them
    files_to_describe,      \* the queue of changed files
    changed_files,          \* what filter_files_by_hash returned this run
    hashFailed,             \* files whose hash could not be computed this run
    bi,                     \* position in the reversed folder_dict
    i, length,              \* the counters of the assignment loop
    python_files_to_process,\* the files of the folder being processed
    fi,                     \* position in python_files_to_process
    batches,                \* the folders considered so far, with their files
    calls,                  \* per file: process_single_file / Annotator calls
    lastApply,              \* what the last approve_and_save_file call did
    prompts,                \* the confirmations asked of the user, with answers
    prCalls,                \* the folders create_github_pr was called for
    faults,                 \* the failures injected so far
    applied,                \* files approve_and_save_file returned True for
    prev,                   \* how the previous run ended
    edited,                 \* files the user edited since the previous run
    startDisk,              \* the files as they were when this run started
    describeFailed,         \* files whose description failed this run
    few_shot,               \* the budget and prompt of the last Annotator call
    embedded,               \* description files embed_and_store_files was given
    indexErrors,            \* where the embedding index failed this run
    assistant,              \* assistant_id and thread_id, once created
    cli,                    \* the command line and environment main was given
    main_github_repo,       \* main's local github_repo
    git,                    \* the working copy, its branches and the remote
    pr                      \* the locals of create_github_pr

vars == <<pc, run, args, disk, backups, cacheFile, contextFile, cache,
          cacheLoaded, context_summary, contextLoaded, python_files_sorted,
          files_to_describe, changed_files, hashFailed, bi, i, length, python_files_to_process,
          fi, batches, calls, lastApply, prompts, prCalls, faults, applied,
          prev, edited, startDisk, describeFailed, few_shot, embedded, indexErrors, assistant, cli,
          main_github_repo, git, pr>>

runVars == <<cache, cacheLoaded, context_summary, contextLoaded,
             python_files_sorted, files_to_describe, changed_files, hashFailed, bi, i, length,
             python_files_to_process, fi, batches, calls, lastApply, prompts,
             prCalls, applied, describeFailed, few_shot, embedded, indexErrors, assistant>>

\* what no action of a run changes
runFrame == <<run, args, prev, edited, startDisk, cli, main_github_repo, git, pr>>
sortedFrame == <<runFrame, python_files_sorted>>

NoApply == [path |-> None, fault |-> "notcalled", result |-> FALSE]

NoCalls == [f \in Files |-> [single |-> 0, annot |-> 0]]

\* assistant_id and thread_id before initialize_and_create_assistant
NoAssistant == [assistant_id |-> FALSE, thread_id |-> FALSE]

NoPrompt == [called |-> FALSE, path |-> None, max_tokens |-> 0,
             file_tokens |-> 0, context_tokens |-> 0]

\* main has not been entered: the function is called with its arguments.
NoCli == [no_cache |-> FALSE, api_key |-> TRUE, path_exists |-> TRUE,
          pr |-> FALSE, github_token |-> FALSE, env_github_repo |-> FALSE,
          is_git_repo |-> FALSE, cache_file |-> {}, context_file |-> <<>>]

\* a working copy without changes on the target branch; nothing on the remote
CleanGit == [dirty |-> {}, staged |-> {}, branch |-> "target",
             branches |-> {"target"}, commits |-> <<>>, pushed |-> <<>>,
             pulls |-> <<>>]

NoPr == [batch |-> {}, changed_files |-> {}, result |-> "none"]

\* An entry of the context summary left by an earlier run for a file that
\* has been deleted since, and one for a file that still exists.
StaleEntry == [file |-> <<"o">>, description |-> 1]
EntryB == [file |-> RelPath(FileB), description |-> 1]
\* the same entry with its path written with a trailing separator
EntryBSlash == [file |-> Append(RelPath(FileB), "/"), description |-> 1]

\* The argument combinations of a run: pull requests requested or not,
\* a Git repository present or not, a token given or not.
ArgSets ==
    {[pr_depth |-> d, manual |-> c[1], create_pr |-> c[2], git_present |-> c[3],
      github_token |-> c[4], github_repo |-> c[2]] :
        d \in 0..MaxDepth,
        c \in {<<FALSE, TRUE, TRUE, TRUE>>, <<TRUE, TRUE, TRUE, TRUE>>,
               <<FALSE, FALSE, TRUE, TRUE>>, <<TRUE, TRUE, FALSE, TRUE>>,
               <<FALSE, TRUE, TRUE, FALSE>>}}

RunStart ==
    /\ cache = [p \in RelFiles |-> None]
    /\ cacheLoaded = [p \in RelFiles |-> None]
    /\ context_summary = <<>>
    /\ contextLoaded = <<>>
    /\ python_files_sorted = <<>>
    /\ files_to_describe = <<>>
    /\ changed_files = <<>>
    /\ hashFailed = {}
    /\ describeFailed = {}
    /\ few_shot = NoPrompt
    /\ embedded = <<>>
    /\ indexErrors = {}
    /\ assistant = NoAssistant
    /\ bi = 0
    /\ i = 0
    /\ length = 0
    /\ python_files_to_process = <<>>
    /\ fi = 0
    /\ batches = <<>>
    /\ calls = NoCalls
    /\ lastApply = NoApply
    /\ prompts = <<>>
    /\ prCalls = <<>>
    /\ applied = {}

NoPrev == [pc |-> "none", changed |-> {}, applied |-> {}, hashFailed |-> {},
           attempted |-> {}, cacheLoaded |-> [p \in RelFiles |-> None]]

\* A repository with earlier runs behind it: every file is either cached
\* with its current hash or not cached at all.
Init ==
    /\ pc = "init"
    /\ run = 1
    /\ args \in ArgSets
    /\ disk = [f \in Files |-> OrigContent]
    /\ backups = [f \in Files |-> <<>>]
    /\ cacheFile \in {save_cache(c) :
                        c \in [RelFiles -> {None, compute_sha256(OrigContent)}]}
    /\ contextFile \in {<<StaleEntry, EntryB>>, <<StaleEntry, EntryBSlash>>}
    /\ faults = 0
    /\ prev = NoPrev
    /\ edited = {}
    /\ startDisk = disk
    /\ cli = NoCli
    /\ main_github_repo = FALSE
    /\ git = CleanGit
    /\ pr = NoPr
    /\ RunStart

\* A repository whose files were all described by an earlier run that
\* annotated none of them: nothing is cached.  Pull requests are off, or on
\* with manual confirmation.
InitRuns ==
    /\ pc = "init"
    /\ run = 1
    /\ args \in {a \in ArgSets : a.pr_depth = 1 /\ a.git_present /\ a.github_token
                                  /\ (a.create_pr <=> a.manual)}
    /\ disk = [f \in Files |-> OrigContent]
    /\ backups = [f \in Files |-> <<>>]
    /\ cacheFile = {}
    /\ contextFile = <<EntryB, [file |-> RelPath(FileA), description |-> 1],
                       [file |-> RelPath(FileC), description |-> 1]>>
    /\ faults = 0
    /\ prev = NoPrev
    /\ edited = {}
    /\ startDisk = disk
    /\ cli = NoCli
    /\ main_github_repo = FALSE
    /\ git = CleanGit
    /\ pr = NoPr
    /\ RunStart

\* The environment injects n more failures.
Inject(n) == faults + n <= MaxFaults /\ faults' = faults + n

B2N(b) == IF b THEN 1 ELSE 0

(* --------------------- INITIATE: process.py 192-235 -------------------- *)
\* traverse_repo: every directory of depth <= pr_depth is recorded under its
\* depth, in the order the walk finds it; deeper directories are not
\* recorded.  The result lists the depths in insertion order.
AddDir(fd, dir) ==
    IF \E k \in 1..Len(fd) : fd[k][1] = DirDepth(dir)
    THEN [k \in 1..Len(fd) |->
            IF fd[k][1] = DirDepth(dir)
            THEN <<fd[k][1], Append(fd[k][2], dir)>> ELSE fd[k]]
    ELSE Append(fd, <<DirDepth(dir), <<dir>> >>)

RECURSIVE WalkDirs(_, _, _)
WalkDirs(fd, dirs, pr_depth) ==
    IF dirs = <<>> THEN fd
    ELSE WalkDirs(IF DirDepth(Head(dirs)) <= pr_depth
                  THEN AddDir(fd, Head(dirs)) ELSE fd,
                  Tail(dirs), pr_depth)

traverse_repo(pr_depth) == WalkDirs(<<>>, DirWalk, pr_depth)

\* reversed(folder_dict.items())
FolderItemsNotReversed(fd) == fd
FolderItems(fd) == Reverse(fd)

\* the (depth, folder) pairs in the order the two nested for loops visit them
RECURSIVE FolderLoop(_)
FolderLoop(items) ==
    IF items = <<>> THEN <<>>
    ELSE [k \in 1..Len(Head(items)[2]) |-> <<Head(items)[1], Head(items)[2][k]>>]
         \o FolderLoop(Tail(items))

BatchList == FolderLoop(FolderItems(traverse_repo(args.pr_depth)))

\* initialize_and_create_assistant (64-91): the two identifiers, or
\* (None, None) when the assistant cannot be initialized or an exception is
\* raised, or (assistant_id, None) when the thread cannot be created.
AssistantOutcomes ==
    {[assistant_id |-> TRUE, thread_id |-> TRUE],
     [assistant_id |-> TRUE, thread_id |-> FALSE],
     [assistant_id |-> FALSE, thread_id |-> FALSE]}

\* (Variant of the step below: the run goes on without assistant or thread.)
InitiateGoesOn ==
    /\ pc = "init"
    /\ cache' = load_cache(cacheFile)
    /\ cacheLoaded' = load_cache(cacheFile)
    /\ \E loadOk \in BOOLEAN, created \in AssistantOutcomes :
          /\ Inject(B2N(~loadOk) + B2N(~created.thread_id))
          /\ context_summary' = IF loadOk THEN contextFile ELSE <<>>
          /\ contextLoaded' = IF loadOk THEN contextFile ELSE <<>>
          /\ assistant' = created
          /\ pc' = "filter"
    /\ UNCHANGED <<sortedFrame, disk, backups, cacheFile, contextFile,
                   files_to_describe, changed_files, hashFailed, describeFailed,
                   embedded, indexErrors, bi, i, length,
                   python_files_to_process, fi, batches, calls, lastApply,
                   few_shot, prompts, prCalls, applied>>

\* Lines 195-235: the cache and the context summary are loaded; when the
\* Assistant or its thread cannot be created the function returns.
Initiate ==
    /\ pc = "init"
    /\ cache' = load_cache(cacheFile)
    /\ cacheLoaded' = load_cache(cacheFile)
    /\ \E loadOk \in BOOLEAN, created \in AssistantOutcomes :
          /\ Inject(B2N(~loadOk) + B2N(~created.thread_id))
          /\ context_summary' = IF loadOk THEN contextFile ELSE <<>>
          /\ contextLoaded' = IF loadOk THEN contextFile ELSE <<>>
          /\ assistant' = created
          /\ pc' = IF created.assistant_id /\ created.thread_id
                   THEN "filter" ELSE "returned"
    /\ UNCHANGED <<sortedFrame, disk, backups, cacheFile, contextFile,
                   files_to_describe, changed_files, hashFailed, describeFailed,
                   embedded, indexErrors, bi, i, length,
                   python_files_to_process, fi, batches, calls, lastApply,
                   few_shot, prompts, prCalls, applied>>

(* -------------- filter_files_by_hash: process.py 520-550 --------------- *)
\* One pass over file_paths; computing the hash of a file in unreadable
\* raises, which is logged, and the loop goes on with the next file.
\* (variants used to test the claims: a file that cannot be hashed counts as
\* changed; a file without a cache entry is passed over)
RECURSIVE filter_files_by_hash_keepsUnreadable(_, _, _)
filter_files_by_hash_keepsUnreadable(file_paths, cch, unreadable) ==
    IF file_paths = <<>> THEN <<>>
    ELSE (IF Head(file_paths) \in unreadable
             \/ compute_sha256(disk[Head(file_paths)]) # cch[RelPath(Head(file_paths))]
          THEN <<Head(file_paths)>> ELSE <<>>)
         \o filter_files_by_hash_keepsUnreadable(Tail(file_paths), cch, unreadable)

RECURSIVE filter_files_by_hash_skipsUncached(_, _, _)
filter_files_by_hash_skipsUncached(file_paths, cch, unreadable) ==
    IF file_paths = <<>> THEN <<>>
    ELSE (IF Head(file_paths) \notin unreadable
             /\ cch[RelPath(Head(file_paths))] # None
             /\ compute_sha256(disk[Head(file_paths)]) # cch[RelPath(Head(file_paths))]
          THEN <<Head(file_paths)>> ELSE <<>>)
         \o filter_files_by_hash_skipsUncached(Tail(file_paths), cch, unreadable)

RECURSIVE filter_files_by_hash(_, _, _)
filter_files_by_hash(file_paths, cch, unreadable) ==
    IF file_paths = <<>> THEN <<>>
    ELSE (IF Head(file_paths) \notin unreadable
             /\ compute_sha256(disk[Head(file_paths)]) # cch[RelPath(Head(file_paths))]
          THEN <<Head(file_paths)>> ELSE <<>>)
         \o filter_files_by_hash(Tail(file_paths), cch, unreadable)

\* Lines 242-251: get_python_files, sort_files_by_size (the sizes are
\* arbitrary, so any order of the files can come out), filter_files_by_hash.
FilterFiles ==
    /\ pc = "filter"
    /\ \E sorted \in Perms(Files), unreadable \in SUBSET Files :
          /\ python_files_sorted' = sorted
          /\ files_to_describe' = filter_files_by_hash(sorted, cache, unreadable)
          /\ changed_files' = filter_files_by_hash(sorted, cache, unreadable)
          /\ hashFailed' = unreadable
          /\ Inject(Cardinality(unreadable))
    /\ pc' = "describe"
    /\ UNCHANGED <<runFrame, describeFailed, embedded, indexErrors, assistant, disk, backups, cacheFile, contextFile, cache,
                   cacheLoaded, context_summary, contextLoaded, bi, i, length,
                   python_files_to_process, fi, batches, calls, lastApply, few_shot,
                   prompts, prCalls, applied>>

(* ------------ process_file_descriptions: process.py 94-151 ------------- *)
\* Line 124: is there an entry whose path, normalized, is the relative path?
\* (Variant: the paths are compared as they are written.)
HasEntryExact(cs, rel) == \E k \in 1..Len(cs) : cs[k].file = rel
HasEntry(cs, rel) == \E k \in 1..Len(cs) : PathStr(cs[k].file) = PathStr(rel)

\* generate_file_description: a text about the content it was given
generate_file_description(c) == c.body

\* (Variant of the loop below: it ends at the first file that fails.)
RECURSIVE process_file_descriptions_stopsAtFailure(_, _, _)
process_file_descriptions_stopsAtFailure(files_to_process, cs, failing) ==
    IF files_to_process = <<>> \/ Head(files_to_process) \in failing THEN cs
    ELSE LET file == Head(files_to_process)
             relative_path == PathStr(RelPath(file))
         IN process_file_descriptions_stopsAtFailure(
                Tail(files_to_process),
                IF ~HasEntry(cs, relative_path)
                THEN Append(cs, [file |-> relative_path,
                                 description |-> generate_file_description(disk[file])])
                ELSE cs,
                failing)

\* The loop of lines 122-145 over files_to_process; for a file in failing
\* the read, the generation or the save raises and nothing is appended.
RECURSIVE process_file_descriptions(_, _, _)
process_file_descriptions(files_to_process, cs, failing) ==
    IF files_to_process = <<>> THEN cs
    ELSE LET file == Head(files_to_process)
             relative_path == PathStr(RelPath(file))
         IN process_file_descriptions(
                Tail(files_to_process),
                IF ~HasEntry(cs, relative_path) /\ file \notin failing
                THEN Append(cs, [file |-> relative_path,
                                 description |-> generate_file_description(disk[file])])
                ELSE cs,
                failing)

\* the place of an embedding-index failure while descriptions are inserted
InDescribe == <<"describe">>

\* (Variant of the step below: a failure of the embedding index ends the
\* run.)
DescribeAbortsOnIndexError ==
    /\ pc = "describe"
    /\ \E failing \in SUBSET {f \in SeqToSet(files_to_describe) :
                                ~HasEntry(context_summary, RelPath(f))},
          embedOk \in BOOLEAN :
          LET cs == process_file_descriptions(files_to_describe, context_summary, failing)
              file_descriptions_list ==
                  [k \in 1..(Len(cs) - Len(context_summary)) |->
                      cs[Len(context_summary) + k].file]
          IN  /\ ~embedOk => file_descriptions_list # <<>>
              /\ Inject(Cardinality(failing) + B2N(~embedOk))
              /\ context_summary' = cs
              /\ describeFailed' = failing
              /\ embedded' = file_descriptions_list
              /\ indexErrors' = IF embedOk THEN indexErrors
                                ELSE indexErrors \cup {InDescribe}
              /\ pc' = IF embedOk THEN "folder" ELSE "EmbedError"
              /\ bi' = IF embedOk THEN 1 ELSE bi
    /\ UNCHANGED <<sortedFrame, disk, backups, cacheFile, contextFile, cache,
                   cacheLoaded, contextLoaded, files_to_describe, changed_files,
                   hashFailed, i, length, python_files_to_process, fi, batches,
                   calls, lastApply, few_shot, prompts, prCalls, applied,
                   assistant>>

\* Lines 253-267, with lines 147-151: when a description was written,
\* embed_and_store_files and upload_files_to_openai are called.  The upload
\* catches its failures (567-572); embed_and_store_files logs a failure of
\* the embedding index and returns.
Describe ==
    /\ pc = "describe"
    /\ \E failing \in SUBSET {f \in SeqToSet(files_to_describe) :
                                ~HasEntry(context_summary, RelPath(f))},
          embedOk \in BOOLEAN :
          LET cs == process_file_descriptions(files_to_describe, context_summary, failing)
              file_descriptions_list ==
                  [k \in 1..(Len(cs) - Len(context_summary)) |->
                      cs[Len(context_summary) + k].file]
          IN  /\ ~embedOk => file_descriptions_list # <<>>
              /\ Inject(Cardinality(failing) + B2N(~embedOk))
              /\ context_summary' = cs
              /\ describeFailed' = failing
              /\ embedded' = file_descriptions_list
              /\ indexErrors' = IF embedOk THEN indexErrors
                                ELSE indexErrors \cup {InDescribe}
              /\ pc' = "folder"
              /\ bi' = 1
    /\ UNCHANGED <<sortedFrame, disk, backups, cacheFile, contextFile, cache,
                   cacheLoaded, contextLoaded, files_to_describe, changed_files,
                   hashFailed, i, length, python_files_to_process, fi, batches,
                   calls, lastApply, few_shot, prompts, prCalls, applied,
                   assistant>>

(* ------------- DISPATCH: the folder loop, process.py 273-288 ----------- *)
\* (Variant of the step below: the loop ends after the first folder.)
NextFolderEndsEarly ==
    /\ pc = "folder"
    /\ IF bi > 1
       THEN /\ pc' = "done"
            /\ UNCHANGED <<python_files_to_process, i, length>>
       ELSE /\ pc' = "assign"
            /\ python_files_to_process' = <<>>
            /\ i' = 0
            /\ length' = Len(files_to_describe)
    /\ UNCHANGED <<sortedFrame, disk, backups, cacheFile, contextFile, cache,
                   cacheLoaded, context_summary, contextLoaded,
                   files_to_describe, changed_files, hashFailed, describeFailed, embedded, indexErrors, assistant, bi, fi,
                   batches, calls, lastApply, few_shot, prompts, prCalls, faults, applied>>

\* (Variant of the step below: the loop bound is the number of changed
\* files, not the number of files left in the queue.)
NextFolderCountsAllChanged ==
    /\ pc = "folder"
    /\ IF bi > Len(BatchList)
       THEN /\ pc' = "done"
            /\ UNCHANGED <<python_files_to_process, i, length>>
       ELSE /\ pc' = "assign"
            /\ python_files_to_process' = <<>>
            /\ i' = 0
            /\ length' = Len(changed_files)
    /\ UNCHANGED <<sortedFrame, disk, backups, cacheFile, contextFile, cache,
                   cacheLoaded, context_summary, contextLoaded,
                   files_to_describe, changed_files, hashFailed, describeFailed, embedded, indexErrors, assistant, bi, fi,
                   batches, calls, lastApply, few_shot, prompts, prCalls, faults, applied>>

\* Line 273-275 and 278-279: the next (depth, folder) pair is taken and the
\* assignment loop is set up; when no pair is left the run is over (351).
NextFolder ==
    /\ pc = "folder"
    /\ IF bi > Len(BatchList)
       THEN /\ pc' = "done"
            /\ UNCHANGED <<python_files_to_process, i, length>>
       ELSE /\ pc' = "assign"
            /\ python_files_to_process' = <<>>
            /\ i' = 0
            /\ length' = Len(files_to_describe)
    /\ UNCHANGED <<sortedFrame, disk, backups, cacheFile, contextFile, cache,
                   cacheLoaded, context_summary, contextLoaded,
                   files_to_describe, changed_files, hashFailed, describeFailed, embedded, indexErrors, assistant, bi, fi,
                   batches, calls, lastApply, few_shot, prompts, prCalls, faults, applied>>

\* Line 281: the test made on the head of the queue
HeadMatches(queue, folder, depth) ==
    StartsWith(Head(queue), PathStr(folder)) \/ depth = 0

\* Line 282: files_to_describe.pop(0) leaves the rest of the queue
PopHeadKeeps(queue) == queue
PopHead(queue) == Tail(queue)

\* (Variant of the step below: a file taken from the queue is put in front
\* of the files already taken.)
AssignStepPrepends ==
    /\ pc = "assign"
    /\ i < length
    /\ IF files_to_describe = <<>>
       THEN /\ pc' = "IndexError"
            /\ UNCHANGED <<files_to_describe, python_files_to_process, i>>
       ELSE /\ pc' = "assign"
            /\ i' = i + 1
            /\ IF HeadMatches(files_to_describe, BatchList[bi][2], BatchList[bi][1])
               THEN /\ python_files_to_process' =
                          <<Head(files_to_describe)>> \o python_files_to_process
                    /\ files_to_describe' = PopHead(files_to_describe)
               ELSE UNCHANGED <<files_to_describe, python_files_to_process>>
    /\ UNCHANGED <<sortedFrame, disk, backups, cacheFile, contextFile, cache,
                   cacheLoaded, context_summary, contextLoaded, changed_files,
                   hashFailed, describeFailed, embedded, indexErrors, assistant,
                   bi, length, fi, batches, calls, lastApply, few_shot,
                   prompts, prCalls, faults, applied>>

\* Lines 280-284: one iteration of the while loop.  files_to_describe[0]
\* raises IndexError on an empty queue.
AssignStep ==
    /\ pc = "assign"
    /\ i < length
    /\ IF files_to_describe = <<>>
       THEN /\ pc' = "IndexError"
            /\ UNCHANGED <<files_to_describe, python_files_to_process, i>>
       ELSE /\ pc' = "assign"
            /\ i' = i + 1
            /\ IF HeadMatches(files_to_describe, BatchList[bi][2], BatchList[bi][1])
               THEN /\ python_files_to_process' =
                          Append(python_files_to_process, Head(files_to_describe))
                    /\ files_to_describe' = PopHead(files_to_describe)
               ELSE UNCHANGED <<files_to_describe, python_files_to_process>>
    /\ UNCHANGED <<sortedFrame, disk, backups, cacheFile, contextFile, cache,
                   cacheLoaded, context_summary, contextLoaded, changed_files,
                   hashFailed, describeFailed, embedded, indexErrors, assistant, bi, length, fi, batches, calls, lastApply, few_shot,
                   prompts, prCalls, faults, applied>>

\* (Variant of the step below: a folder that got no file is not skipped.)
AssignEndPersistsEmpty ==
    /\ pc = "assign"
    /\ i >= length
    /\ batches' = Append(batches, [depth |-> BatchList[bi][1],
                                   folder |-> BatchList[bi][2],
                                   files |-> python_files_to_process])
    /\ IF python_files_to_process = <<>>
       THEN /\ pc' = "persist"
            /\ UNCHANGED <<bi, fi>>
       ELSE /\ pc' = "file"
            /\ fi' = 1
            /\ UNCHANGED bi
    /\ UNCHANGED <<sortedFrame, disk, backups, cacheFile, contextFile, cache,
                   cacheLoaded, context_summary, contextLoaded,
                   files_to_describe, changed_files, hashFailed, describeFailed, embedded, indexErrors, assistant, i, length,
                   python_files_to_process, calls, lastApply, few_shot, prompts, prCalls,
                   faults, applied>>

\* Lines 286-293: the loop is over; a folder that got no file is skipped,
\* otherwise its files are processed one after the other.
AssignEnd ==
    /\ pc = "assign"
    /\ i >= length
    /\ batches' = Append(batches, [depth |-> BatchList[bi][1],
                                   folder |-> BatchList[bi][2],
                                   files |-> python_files_to_process])
    /\ IF python_files_to_process = <<>>
       THEN /\ pc' = "folder"
            /\ bi' = bi + 1
            /\ UNCHANGED fi
       ELSE /\ pc' = "file"
            /\ fi' = 1
            /\ UNCHANGED bi
    /\ UNCHANGED <<sortedFrame, disk, backups, cacheFile, contextFile, cache,
                   cacheLoaded, context_summary, contextLoaded,
                   files_to_describe, changed_files, hashFailed, describeFailed, embedded, indexErrors, assistant, i, length,
                   python_files_to_process, calls, lastApply, few_shot, prompts, prCalls,
                   faults, applied>>

(* ------------- approve_and_save_file: process.py 456-517 --------------- *)
\* create_backup: a copy of the file as it is on disk
create_backup(path) == [backups EXCEPT ![path] = <<disk[path]>>]

\* Lines 507-509: the hash is recomputed from the file just written and
\* stored under the relative path.  (Variant: the hash is taken before the
\* write.)
CacheAfterApplyDropsOthers(python_file_path, written) ==
    [p \in DOMAIN cache |-> IF p = RelPath(python_file_path)
                            THEN compute_sha256(written) ELSE None]
CacheAfterApplyHashesOld(python_file_path, written) ==
    [cache EXCEPT ![RelPath(python_file_path)] = compute_sha256(disk[python_file_path])]
CacheAfterApply(python_file_path, written) ==
    [cache EXCEPT ![RelPath(python_file_path)] = compute_sha256(written)]

ApplyFaults == {"none", "header", "backup", "open", "write", "hash"}

\* What one call does to the file, its backup and the cache, and what it
\* returns.  fault names the statement that raises, if any: the header
\* check (494), create_backup (500), open (501), write (502) or
\* compute_sha256 (507).  The manual argument is not read anywhere.
ApplySteps(new_file_content, python_file_path, fault) ==
    LET replaced == ReplaceFence(new_file_content)
        headed == ensure_docstring_header(replaced)
        unchanged == [disk |-> disk, backups |-> backups, cache |-> cache,
                      result |-> FALSE]
    IN  IF replaced = EmptyContent THEN unchanged @@ [fault |-> "empty"]
        ELSE IF fault = "header" THEN unchanged @@ [fault |-> "header"]
        ELSE IF fault = "backup" THEN unchanged @@ [fault |-> "backup"]
        ELSE IF fault = "open"
        THEN [unchanged EXCEPT !.backups = create_backup(python_file_path)]
             @@ [fault |-> "open"]
        ELSE IF fault = "write"
        THEN [unchanged EXCEPT
                 !.backups = create_backup(python_file_path),
                 !.disk = [disk EXCEPT ![python_file_path] = EmptyContent]]
             @@ [fault |-> "write"]
        ELSE IF fault = "hash"
        THEN [unchanged EXCEPT
                 !.backups = create_backup(python_file_path),
                 !.disk = [disk EXCEPT ![python_file_path] = headed]]
             @@ [fault |-> "hash"]
        ELSE [disk |-> [disk EXCEPT ![python_file_path] = headed],
              backups |-> create_backup(python_file_path),
              cache |-> CacheAfterApply(python_file_path, headed),
              result |-> TRUE, fault |-> "none"]

\* (Variant: a failing create_backup does not keep the file from being
\* written.)
approve_and_save_file_ignoresBackupFailure(new_file_content, python_file_path, fault) ==
    IF fault = "backup" /\ ReplaceFence(new_file_content) # EmptyContent
    THEN [ApplySteps(new_file_content, python_file_path, "none")
             EXCEPT !.backups = backups, !.fault = "backup"]
    ELSE ApplySteps(new_file_content, python_file_path, fault)

approve_and_save_file(new_file_content, python_file_path, fault) ==
    ApplySteps(new_file_content, python_file_path, fault)

(* --------------- process_single_file: process.py 354-453 --------------- *)
\* Line 293/304: after a file, the next file of the folder or, after the
\* last one, the save of lines 306-315.
AfterFileStops == "persist"
AfterFile == IF fi = Len(python_files_to_process) THEN "persist" ELSE "file"

\* Lines 400-406: the description of the file in context_summary, the empty
\* string (0) when it has no entry.
file_description(cs, rel) ==
    IF HasEntry(cs, rel)
    THEN cs[CHOOSE k \in 1..Len(cs) :
                /\ PathStr(cs[k].file) = PathStr(rel)
                /\ \A j \in 1..(k - 1) : PathStr(cs[j].file) # PathStr(rel)].description
    ELSE 0

\* the number of tokens of a description
DescTokens(d) == d

\* The snippets the embedding index returns for a file: the descriptions
\* stored for the other files, in ranked order.
Snippets(cs, rel) ==
    LET others == SelectSeq(cs, LAMBDA e : PathStr(e.file) # PathStr(rel))
    IN  [k \in 1..Len(others) |-> others[k].description]

\* Whole snippets are appended in ranked order while the running token count
\* stays within the budget; the first snippet that does not fit ends it.
RECURSIVE AppendSnippets(_, _, _)
AppendSnippets(running, snippets, max_tokens) ==
    IF snippets = <<>> \/ running + DescTokens(Head(snippets)) > max_tokens
    THEN running
    ELSE AppendSnippets(running + DescTokens(Head(snippets)), Tail(snippets),
                        max_tokens)

\* construct_few_shot_prompt: the number of tokens of the prompt; the
\* description given as context comes first, whatever the budget.
construct_few_shot_prompt(snippets, max_tokens, context) ==
    AppendSnippets(DescTokens(context), snippets, max_tokens)

\* Lines 412-418: the budget handed over is MAX_TOKENS - len(original_code).
\* When the embedding index cannot be queried, no snippet is retrieved.
FewShot(python_file_path, queryOk) ==
    LET original_code == disk[python_file_path]
        relative_path == RelPath(python_file_path)
        max_tokens == MAX_TOKENS - CharLen(original_code)
    IN  [called |-> TRUE, path |-> python_file_path, max_tokens |-> max_tokens,
         file_tokens |-> TokenLen(original_code),
         context_tokens |->
            construct_few_shot_prompt(IF queryOk
                                      THEN Snippets(context_summary, relative_path)
                                      ELSE <<>>,
                                      max_tokens,
                                      file_description(context_summary, relative_path))]

\* Lines 391-397: reading the file raises, which is logged; return.
ReadError ==
    /\ calls' = [calls EXCEPT ![python_files_to_process[fi]].single = @ + 1]
    /\ lastApply' = NoApply
    /\ Inject(1)
    /\ UNCHANGED <<disk, backups, cache, applied, few_shot, indexErrors>>

\* (Variant of the step below: the file's current hash is put in the cache
\* although nothing was applied.)
AnnotatorGivesNothingMarksSeen ==
    /\ calls' = [calls EXCEPT ![python_files_to_process[fi]] =
                    [single |-> @.single + 1, annot |-> @.annot + 1]]
    /\ lastApply' = NoApply
    /\ \E queryOk \in BOOLEAN :
          /\ few_shot' = FewShot(python_files_to_process[fi], queryOk)
          /\ indexErrors' = IF queryOk THEN indexErrors
                            ELSE indexErrors \cup {python_files_to_process[fi]}
          /\ Inject(1 + B2N(~queryOk))
    /\ cache' = [cache EXCEPT ![RelPath(python_files_to_process[fi])] =
                     compute_sha256(disk[python_files_to_process[fi]])]
    /\ UNCHANGED <<disk, backups, applied>>

\* Lines 437-453: create_file_with_docstring raises, or returns without
\* having called the apply function.
AnnotatorGivesNothing ==
    /\ calls' = [calls EXCEPT ![python_files_to_process[fi]] =
                    [single |-> @.single + 1, annot |-> @.annot + 1]]
    /\ lastApply' = NoApply
    /\ \E queryOk \in BOOLEAN :
          /\ few_shot' = FewShot(python_files_to_process[fi], queryOk)
          /\ indexErrors' = IF queryOk THEN indexErrors
                            ELSE indexErrors \cup {python_files_to_process[fi]}
          /\ Inject(1 + B2N(~queryOk))
    /\ UNCHANGED <<disk, backups, cache, applied>>

\* Lines 423-445: create_file_with_docstring calls the apply function once
\* with the content it proposes.
AnnotatorApplies ==
    \E new_file_content \in Proposals, fault \in ApplyFaults, queryOk \in BOOLEAN :
        LET path == python_files_to_process[fi]
            r == approve_and_save_file(new_file_content, path, fault)
        IN  /\ fault # "none" => ReplaceFence(new_file_content) # EmptyContent
            /\ Inject(B2N(fault # "none") + B2N(~queryOk))
            /\ indexErrors' = IF queryOk THEN indexErrors
                              ELSE indexErrors \cup {path}
            /\ calls' = [calls EXCEPT ![path] =
                            [single |-> @.single + 1, annot |-> @.annot + 1]]
            /\ disk' = r.disk
            /\ backups' = r.backups
            /\ cache' = r.cache
            /\ lastApply' = [path |-> path, fault |-> r.fault, result |-> r.result]
            /\ few_shot' = FewShot(path, queryOk)
            /\ applied' = IF r.result THEN applied \cup {path} ELSE applied

process_single_file ==
    /\ pc = "file"
    /\ \/ ReadError
       \/ AnnotatorGivesNothing
       \/ AnnotatorApplies
    /\ fi' = fi + 1
    /\ pc' = AfterFile
    /\ UNCHANGED <<sortedFrame, context_summary, contextLoaded, cacheLoaded,
                   files_to_describe, changed_files, hashFailed, describeFailed, embedded, assistant, bi, i, length,
                   python_files_to_process, batches, prompts, prCalls>>

\* Nothing is saved between two files of a folder.  (Variant: the cache is
\* saved after every file.)
ProcessSingleFileSaving ==
    process_single_file /\ cacheFile' = save_cache(cache') /\ UNCHANGED contextFile
ProcessSingleFile == process_single_file /\ UNCHANGED <<cacheFile, contextFile>>

(* ----------------- PERSIST: process.py 306-315 ------------------------- *)
\* (Variant of the step below: entries of files that no longer exist are
\* left out of the file.)
PersistPrunes ==
    /\ pc = "persist"
    /\ \E saveOk \in BOOLEAN :
          /\ Inject(B2N(~saveOk))
          /\ contextFile' =
                IF saveOk
                THEN SelectSeq(context_summary,
                               LAMBDA e : PathStr(e.file) \in RelFiles)
                ELSE contextFile
    /\ cacheFile' = save_cache(cache)
    /\ pc' = "handoff"
    /\ UNCHANGED <<sortedFrame, disk, backups, cache, cacheLoaded,
                   context_summary, contextLoaded, files_to_describe,
                   changed_files, hashFailed, describeFailed, embedded, indexErrors, assistant, bi, i, length,
                   python_files_to_process, fi, batches, calls, lastApply, few_shot,
                   prompts, prCalls, applied>>

\* The context summary is dumped (a failure is logged) and the cache saved.
Persist ==
    /\ pc = "persist"
    /\ \E saveOk \in BOOLEAN :
          /\ Inject(B2N(~saveOk))
          /\ contextFile' = IF saveOk THEN context_summary ELSE contextFile
    /\ cacheFile' = save_cache(cache)
    /\ pc' = "handoff"
    /\ UNCHANGED <<sortedFrame, disk, backups, cache, cacheLoaded,
                   context_summary, contextLoaded, files_to_describe,
                   changed_files, hashFailed, describeFailed, embedded, indexErrors, assistant, bi, i, length,
                   python_files_to_process, fi, batches, calls, lastApply, few_shot,
                   prompts, prCalls, applied>>

(* ----------------- HANDOFF: process.py 317-349 ------------------------- *)
\* Line 318
HandoffEnabled ==
    args.create_pr /\ args.git_present /\ args.github_token /\ args.github_repo

handoffFrame == <<sortedFrame, disk, backups, cacheFile, contextFile, cache,
                  cacheLoaded, context_summary, contextLoaded,
                  files_to_describe, changed_files, hashFailed, describeFailed, embedded, indexErrors, assistant, i, length,
                  python_files_to_process, fi, batches, calls, lastApply, few_shot, faults, applied>>

\* Line 318 is false: on to the next folder.
SkipHandoff ==
    /\ pc = "handoff"
    /\ ~HandoffEnabled
    /\ pc' = "folder"
    /\ bi' = bi + 1
    /\ UNCHANGED <<handoffFrame, prompts, prCalls>>

\* (Variant of the step below: a declined pull request ends the folder
\* loop.)
DeclinePullRequestEndsRun ==
    /\ pc = "handoff"
    /\ HandoffEnabled
    /\ args.manual
    /\ prompts' = Append(prompts, [kind |-> "pr", about |-> BatchList[bi][2],
                                   answer |-> FALSE])
    /\ pc' = "done"
    /\ UNCHANGED <<handoffFrame, prCalls, bi>>

\* Lines 319-324: in manual mode the user declines the pull request.
DeclinePullRequest ==
    /\ pc = "handoff"
    /\ HandoffEnabled
    /\ args.manual
    /\ prompts' = Append(prompts, [kind |-> "pr", about |-> BatchList[bi][2],
                                   answer |-> FALSE])
    /\ pc' = "folder"
    /\ bi' = bi + 1
    /\ UNCHANGED <<handoffFrame, prCalls>>

\* Lines 326-344: create_github_pr is called with the keywords repo_path,
\* github_token, github_repo, branch_name, pr_name and target_branch; its
\* parameter folder (github_utils.py 103) has no default and gets no value,
\* so the call raises TypeError, which nothing catches.
CallCreateGithubPr ==
    /\ pc = "handoff"
    /\ HandoffEnabled
    /\ prompts' = IF args.manual
                  THEN Append(prompts, [kind |-> "pr", about |-> BatchList[bi][2],
                                        answer |-> TRUE])
                  ELSE prompts
    /\ prCalls' = Append(prCalls, BatchList[bi][2])
    /\ pc' = "TypeError"
    /\ UNCHANGED <<handoffFrame, bi>>

(* ------------ create_github_pr: github_utils.py 98-194 ----------------- *)
\* The function on its own, called with a value for every parameter.  The
\* working copy: the tracked files with unstaged changes (dirty), the index
\* (staged), the branch checked out, the branches that exist, the commits
\* made, the branches pushed and the pull requests opened.
\* full_branch_name (131-133): the sanitized branch name with 8 hex digits
\* of a fresh UUID
full_branch_name == "new"

prFrame == <<run, args, disk, backups, cacheFile, contextFile, cache,
             cacheLoaded, context_summary, contextLoaded, python_files_sorted,
             files_to_describe, changed_files, hashFailed, bi, i, length,
             python_files_to_process, fi, batches, calls, lastApply, prompts,
             prCalls, applied, prev, edited, startDisk, describeFailed,
             few_shot, embedded, indexErrors, assistant, cli, main_github_repo>>

\* The working copy holds the changes of the batch handed off (pr.batch) and
\* maybe changes of earlier batches; some branch is checked out; a branch of
\* the generated name exists only by coincidence.
InitPr ==
    /\ pc = "pr_connect"
    /\ run = 1
    /\ args \in {a \in ArgSets : a.pr_depth = 1 /\ a.create_pr /\ ~a.manual
                                  /\ a.git_present /\ a.github_token}
    /\ disk = [f \in Files |-> OrigContent]
    /\ backups = [f \in Files |-> <<>>]
    /\ cacheFile = {}
    /\ contextFile = <<>>
    /\ faults = 0
    /\ prev = NoPrev
    /\ edited = {}
    /\ startDisk = disk
    /\ cli = NoCli
    /\ main_github_repo = FALSE
    /\ \E dirty \in SUBSET Files, current \in {"target", "other"},
          taken \in BOOLEAN :
          /\ git = [dirty |-> dirty, staged |-> {}, branch |-> current,
                    branches |-> {"target", "other"}
                                   \cup (IF taken THEN {full_branch_name} ELSE {}),
                    commits |-> <<>>, pushed |-> <<>>, pulls |-> <<>>]
          /\ \E batch \in SUBSET dirty :
                pr = [batch |-> batch, changed_files |-> {}, result |-> "none"]
    /\ RunStart

\* has_unstaged_changes (57-72): git diff --quiet
has_unstaged_changes == git.dirty # {}

\* checkout_branch (327-349): git checkout <branch_name>, which fails for a
\* branch that does not exist
checkout_branch(g, branch_name, ok) ==
    IF ok /\ branch_name \in g.branches
    THEN [g EXCEPT !.branch = branch_name]
    ELSE g

\* The except branch of lines 189-194: the target branch is checked out, if
\* that works, and False is returned.
PrUnexpectedError(ok) ==
    /\ git' = checkout_branch(git, "target", ok)
    /\ pr' = [pr EXCEPT !.result = "False"]
    /\ pc' = "pr_returned"

PrReturn(result) ==
    /\ pr' = [pr EXCEPT !.result = result]
    /\ pc' = "pr_returned"

\* Lines 128-140: the repository object is fetched; without unstaged changes
\* the function returns False.
PrConnect ==
    /\ pc = "pr_connect"
    /\ \E getRepoOk \in BOOLEAN, checkoutOk \in BOOLEAN :
          /\ Inject(B2N(~getRepoOk) + B2N(~checkoutOk))
          /\ ~checkoutOk => ~getRepoOk
          /\ IF ~getRepoOk THEN PrUnexpectedError(checkoutOk)
             ELSE IF ~has_unstaged_changes
                  THEN PrReturn("False") /\ UNCHANGED git
                  ELSE pc' = "pr_stage" /\ UNCHANGED <<git, pr>>
    /\ UNCHANGED prFrame

\* Lines 142-148: git add .
PrStage ==
    /\ pc = "pr_stage"
    /\ \E addOk \in BOOLEAN :
          /\ Inject(B2N(~addOk))
          /\ IF addOk
             THEN /\ git' = [git EXCEPT !.staged = git.staged \cup git.dirty,
                                        !.dirty = {}]
                  /\ pc' = "pr_checkout"
                  /\ UNCHANGED pr
             ELSE PrReturn("False") /\ UNCHANGED git
    /\ UNCHANGED prFrame

\* Lines 150-153: checkout_branch(repo_path, full_branch_name)
PrCheckoutBranch ==
    /\ pc = "pr_checkout"
    /\ \E ok \in BOOLEAN :
          /\ Inject(B2N(~ok))
          /\ git' = checkout_branch(git, full_branch_name, ok)
          /\ IF git'.branch = full_branch_name
             THEN pc' = "pr_staged_files" /\ UNCHANGED pr
             ELSE PrReturn("False")
    /\ UNCHANGED prFrame

\* Lines 155-159: get_staged_files (74-96), which returns [] when git fails
PrStagedFiles ==
    /\ pc = "pr_staged_files"
    /\ \E ok \in BOOLEAN :
          /\ Inject(B2N(~ok))
          /\ IF ok /\ git.staged # {}
             THEN /\ pr' = [pr EXCEPT !.changed_files = git.staged]
                  /\ pc' = "pr_commit"
             ELSE PrReturn("False")
    /\ UNCHANGED <<prFrame, git>>

\* (Variant of the step below: the pull request is opened whatever
\* commit_and_push_changes returned.)
PrCommitPushIgnoresResult ==
    /\ pc = "pr_commit"
    /\ \E failing \in {"none", "checkout", "add", "commit", "push"} :
          LET onBranch == [git EXCEPT !.branch = full_branch_name,
                                      !.branches = @ \cup {full_branch_name}]
              added == [onBranch EXCEPT !.staged = @ \cup onBranch.dirty,
                                        !.dirty = {}]
              committed == [added EXCEPT
                               !.commits = Append(@, [branch |-> full_branch_name,
                                                      files |-> added.staged]),
                               !.staged = {}]
              pushedG == [committed EXCEPT !.pushed = Append(@, full_branch_name)]
          IN  /\ Inject(B2N(failing # "none"))
              /\ git' = CASE failing = "checkout" -> git
                          [] failing = "add" -> onBranch
                          [] failing = "commit" -> added
                          [] failing = "push" -> committed
                          [] added.staged = {} -> added
                          [] OTHER -> pushedG
              /\ pc' = "pr_create_pull"
              /\ UNCHANGED pr
    /\ UNCHANGED prFrame

\* Lines 161-164 with commit_and_push_changes (234-299): checkout -B, add .,
\* commit, push; a failing command makes it return False, and with nothing
\* in the index nothing is committed or pushed.
PrCommitPush ==
    /\ pc = "pr_commit"
    /\ \E failing \in {"none", "checkout", "add", "commit", "push"} :
          LET onBranch == [git EXCEPT !.branch = full_branch_name,
                                      !.branches = @ \cup {full_branch_name}]
              added == [onBranch EXCEPT !.staged = @ \cup onBranch.dirty,
                                        !.dirty = {}]
              committed == [added EXCEPT
                               !.commits = Append(@, [branch |-> full_branch_name,
                                                      files |-> added.staged]),
                               !.staged = {}]
              pushedG == [committed EXCEPT !.pushed = Append(@, full_branch_name)]
          IN  /\ Inject(B2N(failing # "none"))
              /\ git' = CASE failing = "checkout" -> git
                          [] failing = "add" -> onBranch
                          [] failing = "commit" -> added
                          [] failing = "push" -> committed
                          [] added.staged = {} -> added
                          [] OTHER -> pushedG
              /\ IF failing = "none"
                 THEN pc' = "pr_create_pull" /\ UNCHANGED pr
                 ELSE PrReturn("False")
    /\ UNCHANGED prFrame

\* Lines 166-178: repo.create_pull; a GithubException makes the function
\* return False, any other exception is handled by lines 189-194.
PrCreatePull ==
    /\ pc = "pr_create_pull"
    /\ \E outcome \in {"created", "GithubException", "Exception"},
          checkoutOk \in BOOLEAN :
          /\ Inject(B2N(outcome # "created") + B2N(~checkoutOk))
          /\ ~checkoutOk => outcome = "Exception"
          /\ CASE outcome = "created" ->
                    /\ git' = [git EXCEPT !.pulls =
                                  Append(@, [head |-> full_branch_name,
                                             base |-> "target",
                                             files |-> pr.changed_files])]
                    /\ pc' = "pr_checkout_target"
                    /\ UNCHANGED pr
               [] outcome = "GithubException" -> PrReturn("False") /\ UNCHANGED git
               [] OTHER -> PrUnexpectedError(checkoutOk)
    /\ UNCHANGED prFrame

\* Lines 180-187: the target branch is checked out; True is returned whether
\* that worked or not.
PrCheckoutTarget ==
    /\ pc = "pr_checkout_target"
    /\ \E ok \in BOOLEAN :
          /\ Inject(B2N(~ok))
          /\ git' = checkout_branch(git, "target", ok)
    /\ PrReturn("True")
    /\ UNCHANGED prFrame

create_github_pr ==
    \/ PrConnect
    \/ PrStage
    \/ PrCheckoutBranch
    \/ PrStagedFiles
    \/ PrCommitPush
    \/ PrCreatePull
    \/ PrCheckoutTarget

(* ----------------------- main: __main__.py 104-228 --------------------- *)
\* What main is started with: the flags --no-cache and --pr, whether an API
\* key and a GitHub token are given (option or environment), whether --path
\* exists, whether GITHUB_REPO is set, whether the path is a Git checkout
\* with a GitHub remote, and the two state files as they are found.
CliSets ==
    [no_cache : BOOLEAN, api_key : BOOLEAN, path_exists : BOOLEAN,
     pr : BOOLEAN, github_token : BOOLEAN, env_github_repo : BOOLEAN,
     is_git_repo : BOOLEAN,
     cache_file : {{}, {<<RelPath(FileA), compute_sha256(OrigContent)>>}},
     context_file : {<<>>, <<StaleEntry, EntryB>>}]

InitMain ==
    /\ pc = "main_no_cache"
    /\ run = 1
    /\ args \in {a \in ArgSets : a.pr_depth = 2 /\ ~a.create_pr}
    /\ disk = [f \in Files |-> OrigContent]
    /\ backups = [f \in Files |-> <<>>]
    /\ cli \in CliSets
    /\ cacheFile = cli.cache_file
    /\ contextFile = cli.context_file
    /\ faults = 0
    /\ prev = NoPrev
    /\ edited = {}
    /\ startDisk = disk
    /\ main_github_repo = FALSE
    /\ git = CleanGit
    /\ pr = NoPr
    /\ RunStart

mainFrame == <<run, args, disk, backups, cache, cacheLoaded, context_summary,
               contextLoaded, python_files_sorted, files_to_describe,
               changed_files, hashFailed, bi, i, length,
               python_files_to_process, fi, batches, calls, lastApply,
               prCalls, applied, prev, edited, startDisk, describeFailed,
               few_shot, embedded, indexErrors, assistant, cli, git, pr, faults>>

\* Lines 137-154: with --no-cache the cache file and the context summary
\* file are deleted, if they exist.
MainNoCache ==
    /\ pc = "main_no_cache"
    /\ cacheFile' = IF cli.no_cache THEN {} ELSE cacheFile
    /\ contextFile' = IF cli.no_cache THEN <<>> ELSE contextFile
    /\ pc' = "main_api_key"
    /\ UNCHANGED <<mainFrame, main_github_repo, prompts>>

\* Lines 156-166: no API key or no such path: exit(1).
MainApiKey ==
    /\ pc = "main_api_key"
    /\ pc' = IF cli.api_key /\ cli.path_exists THEN "main_github" ELSE "exit1"
    /\ UNCHANGED <<mainFrame, main_github_repo, prompts, cacheFile, contextFile>>

\* Lines 169-183: github_repo is args.pr; in a checkout with a GitHub remote
\* the user may choose that repository, and for a repository chosen so far
\* the user may choose the one of GITHUB_REPO instead.
MainGithubRepo ==
    /\ pc = "main_github"
    /\ \E useRemote \in BOOLEAN, useEnv \in BOOLEAN :
          LET asked1 == cli.is_git_repo
              repo1 == IF asked1 /\ useRemote THEN TRUE ELSE cli.pr
              asked2 == repo1
              repo2 == IF asked2 /\ useEnv THEN cli.env_github_repo ELSE repo1
              p1 == IF asked1
                    THEN <<[kind |-> "remote", about |-> RepoPath,
                            answer |-> useRemote]>>
                    ELSE <<>>
              p2 == IF asked2
                    THEN <<[kind |-> "env", about |-> RepoPath,
                            answer |-> useEnv]>>
                    ELSE <<>>
          IN  /\ ~asked1 => ~useRemote
              /\ ~asked2 => ~useEnv
              /\ main_github_repo' = repo2
              /\ prompts' = prompts \o p1 \o p2
    /\ pc' = "main_config"
    /\ UNCHANGED <<mainFrame, cacheFile, contextFile>>

\* Lines 185-211: without a repository the user is asked whether to go on
\* (no: sys.exit(0)); with a repository and without a token: exit(1).
MainConfig ==
    /\ pc = "main_config"
    /\ \E proceed \in BOOLEAN :
          /\ main_github_repo => proceed
          /\ prompts' = IF main_github_repo THEN prompts
                        ELSE Append(prompts, [kind |-> "continue",
                                              about |-> RepoPath,
                                              answer |-> proceed])
          /\ pc' = IF ~main_github_repo
                   THEN (IF proceed THEN "main_call" ELSE "exit0")
                   ELSE (IF cli.github_token THEN "main_call" ELSE "exit1")
    /\ UNCHANGED <<mainFrame, main_github_repo, cacheFile, contextFile>>

\* Lines 217-228: process_files_and_create_prs is called with nine keyword
\* arguments; its parameter target_branch (process.py 164) has no default
\* and gets no value, so the call raises TypeError.
MainCall ==
    /\ pc = "main_call"
    /\ pc' = "TypeError"
    /\ UNCHANGED <<mainFrame, main_github_repo, prompts, cacheFile, contextFile>>

main ==
    \/ MainNoCache
    \/ MainApiKey
    \/ MainGithubRepo
    \/ MainConfig
    \/ MainCall

(* ------------------------- the next run -------------------------------- *)
Ended == pc \in {"done", "returned", "TypeError", "IndexError"}

\* The run is followed by a second one: the user edits the files in E, if
\* any, and starts the program again with the same arguments.
SecondRun ==
    /\ Ended
    /\ run = 1
    /\ \E E \in {{}} \cup {{f} : f \in Files} :
          /\ disk' = [f \in Files |-> IF f \in E THEN EditedContent ELSE disk[f]]
          /\ edited' = {f \in E : disk[f] # EditedContent}
    /\ startDisk' = disk'
    /\ prev' = [pc |-> pc, changed |-> SeqToSet(changed_files),
                applied |-> applied, hashFailed |-> hashFailed,
                attempted |-> {f \in Files : calls[f].single > 0},
                cacheLoaded |-> cacheLoaded]
    /\ run' = 2
    /\ pc' = "init"
    /\ cache' = [p \in RelFiles |-> None]
    /\ cacheLoaded' = [p \in RelFiles |-> None]
    /\ context_summary' = <<>>
    /\ contextLoaded' = <<>>
    /\ python_files_sorted' = <<>>
    /\ files_to_describe' = <<>>
    /\ changed_files' = <<>>
    /\ hashFailed' = {}
    /\ describeFailed' = {}
    /\ few_shot' = NoPrompt
    /\ embedded' = <<>>
    /\ indexErrors' = {}
    /\ assistant' = NoAssistant
    /\ bi' = 0
    /\ i' = 0
    /\ length' = 0
    /\ python_files_to_process' = <<>>
    /\ fi' = 0
    /\ batches' = <<>>
    /\ calls' = NoCalls
    /\ lastApply' = NoApply
    /\ prompts' = <<>>
    /\ prCalls' = <<>>
    /\ applied' = {}
    /\ UNCHANGED <<args, backups, cacheFile, contextFile, faults, cli,
                   main_github_repo, git, pr>>

(* ------------------------- the specification --------------------------- *)
Next ==
    \/ Initiate
    \/ FilterFiles
    \/ Describe
    \/ NextFolder
    \/ AssignStep
    \/ AssignEnd
    \/ ProcessSingleFile
    \/ Persist
    \/ SkipHandoff
    \/ DeclinePullRequest
    \/ CallCreateGithubPr

Spec == Init /\ [][Next]_vars

\* A run in which every call returns: execution is sequential and every
\* external call is blocking, so a step that can be taken is taken.
InitFair ==
    /\ Init
    /\ args.pr_depth = 1
    /\ cacheFile = {}
    /\ contextFile = <<StaleEntry, EntryB>>

SpecFair == InitFair /\ [][Next]_vars /\ WF_vars(Next)

\* A run and the run that follows it
NextRuns == Next \/ SecondRun

SpecRuns == InitRuns /\ [][NextRuns]_vars

\* The program started from the command line
SpecMain == InitMain /\ [][main]_vars

\* create_github_pr called on a working copy with changes
SpecPr == InitPr /\ [][create_github_pr]_vars

(* ============================== claims ================================= *)
AllAssigned == Flatten([k \in 1..Len(batches) |-> batches[k].files])

PastFilter == pc \notin {"init", "filter", "returned"}

\* C1: once DISPATCH has gone through all folders, every changed file is in
\* the file list of exactly one folder batch, and the batches' file lists
\* together hold the changed files, none twice and none left out.
C1_Partition ==
    pc = "done" =>
        /\ NoDup(AllAssigned)
        /\ SeqToSet(AllAssigned) = SeqToSet(changed_files)
        /\ Len(AllAssigned) = Len(changed_files)
        /\ files_to_describe = <<>>

C1_Witness ==
    /\ pc = "done"
    /\ Len(changed_files) = 3
    /\ args.pr_depth = 2
    /\ Cardinality({k \in 1..Len(batches) : batches[k].files # <<>>}) >= 2

\* C2: when a folder batch has been considered, no changed file lying under
\* that folder is left in the queue (files standing behind a file of another
\* folder are collected too), so every file is claimed by the deepest batch
\* whose folder is a prefix of its path.
C2_NoSkipping ==
    /\ \A k \in 1..Len(batches) : \A n \in 1..Len(files_to_describe) :
          ~StartsWith(files_to_describe[n], PathStr(batches[k].folder))
    /\ \A k \in 1..Len(batches) : \A n \in 1..Len(batches[k].files) :
          \A b \in 1..Len(BatchList) :
              StartsWith(batches[k].files[n], PathStr(BatchList[b][2]))
                  => BatchList[b][1] <= batches[k].depth

C4_DepthOrder ==
    \A j, k \in 1..Len(batches) : j < k => batches[j].depth >= batches[k].depth

C4_Witness ==
    /\ Len(batches) = 3
    /\ batches[1].files # <<>>
    /\ batches[3].files # <<>>
    /\ batches[1].depth > batches[3].depth

Selected(f) == compute_sha256(startDisk[f]) # cacheLoaded[RelPath(f)]

SelectedReadable(f) == f \notin hashFailed /\ Selected(f)

SecondRunUnchanged == run = 2 /\ prev.pc = "done" /\ edited = {} /\ PastFilter

NothingDone ==
    /\ changed_files = <<>>
    /\ disk = startDisk
    /\ prCalls = <<>>
    /\ prompts = <<>>

\* C5 as stated: when a run has completed and no file is edited afterwards,
\* the second run selects no changed file, overwrites no file and makes no
\* pull-request hand-off.
C5_SecondRunIdle == SecondRunUnchanged => NothingDone

\* C5 amended: the same, for a first run in which every file could be hashed
\* and every selected file was applied (approve_and_save_file returned True).
C5_SecondRunIdleAfterCleanRun ==
    (SecondRunUnchanged /\ prev.hashFailed = {} /\ prev.changed \subseteq prev.applied)
        => NothingDone

C5_Witness ==
    /\ SecondRunUnchanged
    /\ pc = "done"
    /\ prev.applied = Files
    /\ hashFailed = {}
    /\ args.create_pr

\* C6 as stated: filter_files_by_hash returns, in input order, exactly the
\* input files whose hash differs from the cached one or that have no cache
\* entry.
C6_ReturnsAllDiffering ==
    PastFilter => changed_files = SelectSeq(python_files_sorted, Selected)

\* C6 amended: filter_files_by_hash returns, in input order, exactly the
\* input files whose hash could be computed and differs from the cached one
\* or has no cache entry; a file edited between two runs is selected, a file
\* applied by the completed run before and untouched since is not; the cache
\* is as it was loaded.
C6_ChangeDetection ==
    PastFilter =>
        /\ changed_files = SelectSeq(python_files_sorted, SelectedReadable)
        /\ pc = "describe" => cache = cacheLoaded
        /\ run = 2 => \A f \in edited \ hashFailed : f \in SeqToSet(changed_files)
        /\ (run = 2 /\ prev.pc = "done") =>
              \A f \in prev.applied \ edited : f \notin SeqToSet(changed_files)

C6_Witness ==
    /\ run = 2
    /\ prev.pc = "done"
    /\ pc = "describe"
    /\ Len(changed_files) = 2
    /\ edited # {}
    /\ prev.applied \ edited # {}

\* C7: a file whose hash cannot be computed is left out of the changed-file
\* set, the other files are still checked, and its cache entry, in memory and
\* on disk, stays what was loaded.
C7_UnreadableExcluded ==
    PastFilter =>
        /\ \A f \in hashFailed :
              /\ f \notin SeqToSet(changed_files)
              /\ cache[RelPath(f)] = cacheLoaded[RelPath(f)]
              /\ load_cache(cacheFile)[RelPath(f)] = cacheLoaded[RelPath(f)]
        /\ \A f \in Files \ hashFailed :
              Selected(f) => f \in SeqToSet(changed_files)

C7_Witness ==
    /\ pc = "handoff"
    /\ \E f \in hashFailed : cacheLoaded[RelPath(f)] = None
    /\ applied # {}
    /\ load_cache(cacheFile) # cacheLoaded

\* C8: in manual mode a file is overwritten only after the user was asked
\* about that file's change and accepted it.
C8_ManualGate ==
    args.manual =>
        \A f \in Files :
            disk[f] # startDisk[f] =>
                \E k \in 1..Len(prompts) :
                    prompts[k] = [kind |-> "file", about |-> f, answer |-> TRUE]

\* C9: a file is overwritten only after a backup of its original content was
\* made in the same apply step; when create_backup fails the file is not
\* overwritten, the cache is not updated and the apply returns False.
C9_BackupBeforeOverwrite ==
    [][pc = "file" =>
          /\ \A f \in Files : disk'[f] # disk[f] => backups'[f] = <<disk[f]>>
          /\ lastApply'.fault = "backup" =>
                disk' = disk /\ cache' = cache /\ ~lastApply'.result]_vars

C9_Witness ==
    /\ lastApply.fault = "backup"
    /\ disk[lastApply.path] = startDisk[lastApply.path]
    /\ \E g \in Files : disk[g] # startDisk[g] /\ backups[g] = <<startDisk[g]>>

\* C10: the cache file and the context summary file are written only after
\* every file of a non-empty folder went through process_single_file, never
\* between two files; after that the persisted cache is the cache in memory,
\* and the hand-off of the folder comes after the save.
C10_PersistAtBatchEnd ==
    /\ [][(cacheFile' # cacheFile \/ contextFile' # contextFile) =>
             /\ python_files_to_process # <<>>
             /\ \A n \in 1..Len(python_files_to_process) :
                   calls[python_files_to_process[n]].single = 1
             /\ pc' = "handoff"]_vars
    /\ [](pc = "handoff" => load_cache(cacheFile) = cache)
    /\ [][(prCalls' # prCalls \/ prompts' # prompts) =>
             pc = "handoff" /\ load_cache(cacheFile) = cache]_vars

C10_Witness ==
    /\ pc = "handoff"
    /\ Len(python_files_to_process) >= 2
    /\ load_cache(cacheFile) # cacheLoaded
    /\ contextFile = context_summary
    /\ contextFile # contextLoaded

\* C11: a folder batch that is assigned no changed file is skipped: from the
\* moment the folder is taken up to the moment the next one is, no Annotator
\* call is made, neither file is written, no pull request is attempted, and
\* the cache, the context summary and the queue stay as they are.
C11_EmptyBatchSkipped ==
    [][/\ (pc \in {"folder", "assign"} /\ python_files_to_process' = <<>>) =>
             /\ UNCHANGED <<cache, context_summary, files_to_describe, cacheFile,
                            contextFile, calls, prCalls, prompts, disk, backups>>
             /\ pc' \in {"assign", "folder", "done"}
       /\ (pc = "assign" /\ i >= length /\ python_files_to_process = <<>>) =>
             pc' = "folder" /\ bi' = bi + 1]_vars

C11_Witness ==
    /\ pc = "folder"
    /\ Len(batches) >= 1
    /\ batches[Len(batches)].files = <<>>
    /\ files_to_describe # <<>>
    /\ context_summary # contextLoaded

\* C12 as stated: when pull requests are enabled and the hand-off of a folder
\* fails or the hand-off call itself raises, the run goes on with the later
\* folders: it ends only after every folder was considered.
C12_HandoffFailureContained ==
    (prCalls # <<>> /\ Ended) => (pc = "done" /\ Len(batches) = Len(BatchList))

\* C13 as stated: when a folder is handed off while no file of the working
\* copy differs from what it was, the hand-off is skipped without an error
\* and the run goes on with the next folder.
C13_NothingToCommitSkipped ==
    (prCalls # <<>> /\ disk = startDisk) =>
        pc \in {"folder", "assign", "file", "persist", "handoff", "done"}

\* C14 as stated: what the hand-off of a folder stages for its commit, what
\* it commits and what its pull request lists are only files changed while
\* that folder was processed, also when changes of an earlier folder are
\* still uncommitted in the working copy.
C14_ScopedToBatch ==
    /\ git.staged \subseteq pr.batch
    /\ \A k \in 1..Len(git.commits) : git.commits[k].files \subseteq pr.batch
    /\ \A k \in 1..Len(git.pulls) : git.pulls[k].files \subseteq pr.batch

\* C15 as stated: when main has a GitHub repository to open pull requests on
\* and no token, the program exits with an error, and the cache file, the
\* context summary file and the Python files are then as they were found.
C15_ConfigErrorUpFront ==
    (pc \in {"main_call", "exit0", "exit1", "TypeError"}
        /\ main_github_repo /\ ~cli.github_token) =>
        /\ pc = "exit1"
        /\ cacheFile = cli.cache_file
        /\ contextFile = cli.context_file
        /\ disk = startDisk
        /\ calls = NoCalls

\* The phase a position of process_files_and_create_prs belongs to: INIT,
\* DESCRIBE (lines 237-267), DISPATCH (the folder loop), DONE.
Phase(p) ==
    CASE p = "init" -> 0
      [] p \in {"filter", "describe"} -> 1
      [] p \in {"folder", "assign", "file", "persist", "handoff"} -> 2
      [] OTHER -> 3

Aborted(p) == p \in {"returned", "TypeError", "IndexError"}

\* C16: the run goes through INIT, DESCRIBE, DISPATCH and DONE in that order,
\* skipping none and never going back (it may end early with an error);
\* Annotator calls are made in DISPATCH only, and nothing DESCRIBE produces
\* changes after DESCRIBE; DONE is reached only after every folder was
\* considered.
C16_PhaseOrder ==
    /\ [][~Aborted(pc') =>
             (Phase(pc') = Phase(pc) \/ Phase(pc') = Phase(pc) + 1)]_vars
    /\ [][calls' # calls => (Phase(pc) = 2 /\ Phase(pc') = 2)]_vars
    /\ [][Phase(pc) >= 2 =>
             UNCHANGED <<context_summary, describeFailed, embedded>>]_vars
    /\ [](pc = "done" =>
             (Len(batches) = Len(BatchList) /\ files_to_describe = <<>>))

C16_Witness ==
    /\ pc = "done"
    /\ Len(batches) = 3
    /\ embedded # <<>>
    /\ describeFailed # {}
    /\ \E f \in Files : calls[f].annot = 1

PastDescribe == pc \notin {"init", "filter", "describe", "returned"}

\* C17: a file whose description fails gets no context entry, every other
\* changed file has an entry after DESCRIBE, and the run goes on to the
\* folder loop.
C17_DescribeTolerant ==
    /\ [](PastDescribe =>
             /\ \A f \in describeFailed : ~HasEntry(context_summary, RelPath(f))
             /\ \A f \in SeqToSet(changed_files) \ describeFailed :
                   HasEntry(context_summary, RelPath(f)))
    /\ [][pc = "describe" => (pc' = "folder" /\ bi' = 1)]_vars

C17_Witness ==
    /\ pc = "folder"
    /\ \E j, k \in 1..Len(files_to_describe) :
          /\ j < k
          /\ files_to_describe[j] \in describeFailed
          /\ \E n \in 1..Len(embedded) :
                embedded[n] = PathStr(RelPath(files_to_describe[k]))

NormalizedUnique(cs) ==
    \A j, k \in 1..Len(cs) : PathStr(cs[j].file) = PathStr(cs[k].file) => j = k

\* C18: when the context summary as loaded has at most one entry per
\* normalized path, so has the context summary in memory and on disk at any
\* time; describing the changed files once more would add entries only for
\* the files whose description failed, none for a file that has an entry.
C18_ContextUnique ==
    NormalizedUnique(contextLoaded) =>
        /\ NormalizedUnique(context_summary)
        /\ contextFile # contextLoaded => NormalizedUnique(contextFile)
        /\ PastDescribe =>
              LET again == process_file_descriptions(changed_files,
                                                     context_summary, {})
              IN  /\ SubSeq(again, 1, Len(context_summary)) = context_summary
                  /\ \A k \in (Len(context_summary) + 1)..Len(again) :
                        \E f \in describeFailed :
                            again[k].file = PathStr(RelPath(f))

C18_Witness ==
    /\ pc = "handoff"
    /\ contextLoaded = <<StaleEntry, EntryBSlash>>
    /\ \E k \in 1..Len(changed_files) : changed_files[k] = FileB
    /\ Len(context_summary) > Len(contextLoaded)
    /\ contextFile = context_summary

IsPrefix(a, b) == Len(a) <= Len(b) /\ SubSeq(b, 1, Len(a)) = a

C20_TokenBudget ==
    few_shot.called =>
        /\ few_shot.max_tokens = MAX_TOKENS - few_shot.file_tokens
        /\ few_shot.context_tokens <= MAX_TOKENS - few_shot.file_tokens

C22_ExampleA ==
    (pc = "done" /\ args.pr_depth = 1 /\ SeqToSet(changed_files) = Files) =>
        /\ Len(batches) = 2
        /\ batches[1].folder = <<"r", "/", "p">>
        /\ SeqToSet(batches[1].files) = {FileB, FileC}
        /\ batches[2].folder = RepoPath
        /\ SeqToSet(batches[2].files) = {FileA}

NotApplied == prev.attempted \ prev.applied

\* C23 as stated: a file that was attempted but not applied in a run has, in
\* the next run, the cache entry it had before, and is selected again when
\* its content differs from that entry; a file that was applied and not
\* edited since is not selected.
C23_RetryWheneverDiffering ==
    (run = 2 /\ PastFilter) =>
        /\ \A f \in NotApplied :
              /\ cacheLoaded[RelPath(f)] = prev.cacheLoaded[RelPath(f)]
              /\ Selected(f) => f \in SeqToSet(changed_files)
        /\ \A f \in prev.applied \ edited : f \notin SeqToSet(changed_files)

\* C23 amended: the same, where the file is selected again when its hash can
\* be computed and its content differs from the entry.
C23_RetryBySelection ==
    (run = 2 /\ PastFilter) =>
        /\ \A f \in NotApplied :
              /\ cacheLoaded[RelPath(f)] = prev.cacheLoaded[RelPath(f)]
              /\ f \notin hashFailed =>
                    (f \in SeqToSet(changed_files) <=> Selected(f))
              /\ f \in hashFailed => f \notin SeqToSet(changed_files)
        /\ \A f \in prev.applied \ edited : f \notin SeqToSet(changed_files)

C23_Witness ==
    /\ run = 2
    /\ pc = "describe"
    /\ \E f \in NotApplied :
          f \in SeqToSet(changed_files) /\ startDisk[f] = OrigContent
    /\ \E f \in NotApplied :
          f \in SeqToSet(changed_files) /\ startDisk[f] # OrigContent
    /\ \E g \in prev.applied : g \notin SeqToSet(changed_files)

\* C24: after the cache is loaded, a step changes an entry of the cache in
\* memory only if it is the processing of a file whose apply returned True;
\* the step then changed the file on disk, the entry of that file's path is
\* the hash of the content now on disk, and every other entry is as before.
C24_CacheUpdateFrame ==
    [][(pc # "init" /\ cache' # cache) =>
          /\ pc = "file"
          /\ lastApply'.result
          /\ lastApply'.path = python_files_to_process[fi]
          /\ disk'[lastApply'.path] # disk[lastApply'.path]
          /\ cache'[RelPath(lastApply'.path)] =
                compute_sha256(disk'[lastApply'.path])
          /\ \A q \in DOMAIN cache :
                q # RelPath(lastApply'.path) => cache'[q] = cache[q]]_vars

C24_Witness ==
    /\ pc = "done"
    /\ \E f \in applied, g \in Files \ applied :
          /\ cache[RelPath(f)] # cacheLoaded[RelPath(f)]
          /\ cache[RelPath(f)] = compute_sha256(disk[f])
          /\ cacheLoaded[RelPath(g)] # None
          /\ cache[RelPath(g)] = cacheLoaded[RelPath(g)]
    /\ \E h \in Files \ applied :
          calls[h].single = 1 /\ cache[RelPath(h)] = cacheLoaded[RelPath(h)]

\* C25 as stated: the apply function returns True exactly when the file was
\* overwritten with the new content and its cache entry updated, and when it
\* returns False the file on disk has the content it had before.
C25_ApplyFaithful ==
    lastApply.path # None =>
        /\ lastApply.result <=>
              /\ disk[lastApply.path] # startDisk[lastApply.path]
              /\ cache[RelPath(lastApply.path)] =
                    compute_sha256(disk[lastApply.path])
        /\ ~lastApply.result =>
              disk[lastApply.path] = startDisk[lastApply.path]

IndexIn(s, x) == CHOOSE k \in 1..Len(s) : s[k] = x

InOrderOf(s, ref) ==
    \A m, n \in 1..Len(s) :
        m < n => /\ s[m] \in SeqToSet(ref)
                 /\ s[n] \in SeqToSet(ref)
                 /\ IndexIn(ref, s[m]) < IndexIn(ref, s[n])

\* C26: the files taken for a folder, while they are collected and when
\* they are handed to the annotation step, are in the order they have in
\* the list of changed files.
C26_StableOrder ==
    /\ InOrderOf(python_files_to_process, changed_files)
    /\ \A b \in 1..Len(batches) : InOrderOf(batches[b].files, changed_files)

C26_Witness ==
    /\ pc = "done"
    /\ \E b, d \in 1..Len(batches) :
          /\ b # d
          /\ Len(batches[b].files) >= 2
          /\ Len(batches[d].files) >= 1
          /\ calls[batches[b].files[2]].single = 1

\* C27 as stated: when create_github_pr returns with the generated branch
\* checked out before its last step, that last step is the checkout of the
\* target branch (lines 181 or 192), which has worked or has failed as a
\* second failure of the call.
C27_TargetRestored ==
    [][(pc' = "pr_returned" /\ git.branch = full_branch_name) =>
          \/ pc = "pr_checkout_target"
          \/ pc = "pr_create_pull" /\ (git'.branch = "target" \/ faults' = faults + 2)]_vars

PrRank(p) ==
    CASE p = "pr_connect" -> 1
      [] p = "pr_stage" -> 2
      [] p = "pr_checkout" -> 3
      [] p = "pr_staged_files" -> 4
      [] p = "pr_commit" -> 5
      [] p = "pr_create_pull" -> 6
      [] p = "pr_checkout_target" -> 7
      [] OTHER -> 8

PushedInCall ==
    /\ \E k \in 1..Len(git.commits) :
          /\ git.commits[k].branch = full_branch_name
          /\ git.commits[k].files # {}
    /\ full_branch_name \in SeqToSet(git.pushed)

\* C28: in a call of create_github_pr a step is followed by the next one in
\* the order check for changes, stage, switch branch, list staged files,
\* commit and push, open the pull request, or by the return; a pull request
\* is opened only by the step after a commit and push that succeeded, with
\* the generated branch committed and pushed; a call that returns False has
\* opened none.
C28_PullAfterPush ==
    /\ [][pc' # pc =>
             \/ PrRank(pc') = PrRank(pc) + 1
             \/ pc' = "pr_returned" /\ pr'.result = "False"]_vars
    /\ [][git'.pulls # git.pulls =>
             /\ pc = "pr_create_pull"
             /\ PushedInCall
             /\ git.branch = full_branch_name
             /\ git.dirty = {} /\ git.staged = {}
             /\ Len(git'.pulls) = 1]_vars
    /\ [](git.pulls # <<>> => PushedInCall)
    /\ []((pc = "pr_returned" /\ pr.result = "False") => git.pulls = <<>>)
    /\ []((pc = "pr_returned" /\ pr.result = "True") => Len(git.pulls) = 1)

C28_Witness ==
    /\ pc = "pr_returned"
    /\ pr.result = "True"
    /\ Len(git.pulls) = 1
    /\ git.pulls[1].files # {}
    /\ PushedInCall

NonEmptyBatches == SelectSeq(batches, LAMBDA b : b.files # <<>>)

SomeDeclined == \E k \in 1..Len(prompts) : ~prompts[k].answer

AssistantFailed == ~(assistant.assistant_id /\ assistant.thread_id)

\* C30: when the assistant or its thread could not be created the run has
\* returned and stays there: no file was filtered by hash, described,
\* handed to the Annotator or changed, no folder was considered, no pull
\* request was asked about or attempted, and the step that returned left
\* the cache file and the context summary file as they were.
C30_InitFailureStops ==
    /\ []((pc # "init" /\ AssistantFailed) =>
             /\ pc = "returned"
             /\ changed_files = <<>>
             /\ hashFailed = {}
             /\ embedded = <<>>
             /\ context_summary = contextLoaded
             /\ calls = NoCalls
             /\ applied = {}
             /\ disk = startDisk
             /\ batches = <<>>
             /\ prompts = <<>>
             /\ prCalls = <<>>
             /\ load_cache(cacheFile) = cacheLoaded)
    /\ [](pc = "returned" => AssistantFailed)
    /\ [][pc' = "returned" =>
             /\ pc = "init"
             /\ cacheFile' = cacheFile
             /\ contextFile' = contextFile]_vars
    /\ [][pc = "returned" => pc' = "returned"]_vars

C30_Witness ==
    /\ pc = "returned"
    /\ assistant.assistant_id
    /\ ~assistant.thread_id
    /\ cacheFile # {}
    /\ contextFile # <<>>
    /\ \E f \in Files : compute_sha256(disk[f]) # cacheLoaded[RelPath(f)]

\* C32: the assignment loop never evaluates files_to_describe[0] on an
\* empty queue: while a folder's loop runs the queue holds at least as many
\* files as iterations are left, whatever the folder, the depth and the
\* queue (an empty queue makes no iteration); once the folder of depth 0
\* has been considered the queue is empty.
C32_HeadOfQueueExists ==
    /\ pc # "IndexError"
    /\ pc = "assign" =>
          /\ Len(files_to_describe) = length - Len(python_files_to_process)
          /\ Len(python_files_to_process) <= i
          /\ i <= length
          /\ i < length => files_to_describe # <<>>
    /\ (\E b \in 1..Len(batches) : batches[b].depth = 0) =>
          files_to_describe = <<>>

C32_Witness ==
    /\ pc = "assign"
    /\ batches # <<>>
    /\ 0 < i
    /\ i < length
    /\ Len(python_files_to_process) < i
    /\ Len(files_to_describe) >= 2

\* C31 as stated: a run in which every external call returns, and whose
\* assistant and thread were created, eventually reaches DONE; the
\* assignment loop of a folder makes no more iterations than there were
\* files in the queue when it started.
C31_Termination ==
    /\ (pc = "filter") ~> (pc = "done")
    /\ [](pc = "assign" => i <= length)

====
